---- MODULE Spec2Model ----
(***************************************************************************)
(* Model of codex-rs/mcp-client/src/mcp_client.rs: the McpClient session,  *)
(* its writer task, its reader task and concurrent send_request callers.   *)
(***************************************************************************)
EXTENDS Integers, Sequences, FiniteSets, TLC

\* Number of send_request calls issued on the session (one per caller task).
NCallers == 2

\* Capacity of the bounded mpsc channel.  The source sets 128
\* (mcp_client.rs:46); the model scales it down so that a full channel is
\* reachable with NCallers callers.  Nothing in the code depends on the value.
CHANNEL_CAPACITY == 1

Callers == 1..NCallers

\* Ids the peer may put on the wire.
PeerIds == 1..NCallers

----------------------------------------------------------------------------
\* RequestId (mcp_types): integer or string wire form.  String(i) is the
\* string that spells the digits of i.
Integer(i) == [t |-> "Integer", v |-> i]
String(i) == [t |-> "String", v |-> i]

NoMsg == [kind |-> "None"]

\* R::METHOD of the request descriptors used by the callers.
Methods == {"tools/list"}

\* Values of R::Params handed to send_request.
ParamsInputs == {"None", "Some(cursor)", "Unserializable"}

\* The values each caller may pass: the first caller's request type has no
\* parameters to give, the others give a value; any of them may fail to encode.
ParamsOf(c) ==
    IF c = 1 THEN {"None", "Unserializable"} ELSE {"Some(cursor)", "Unserializable"}

\* serde_json::to_value(&params): None becomes JSON null, a value becomes its
\* JSON form, and a value serde cannot encode is an error.
to_value(p) ==
    CASE p = "None" -> [ok |-> TRUE, json |-> "null"]
      [] p = "Unserializable" -> [ok |-> FALSE, json |-> "null"]
      [] OTHER -> [ok |-> TRUE, json |-> "{cursor}"]

is_null(json) == json = "null"

\* A params field that is always Some, so that null is sent as "params": null.
params_field_explicit_null(json) == [present |-> TRUE, json |-> json]

\* params_field: None when the JSON value is null, Some(value) otherwise.
params_field(json) ==
    IF is_null(json) THEN [present |-> FALSE, json |-> "null"]
    ELSE [present |-> TRUE, json |-> json]

\* JSONRPCMessage::Request(JSONRPCRequest { id, jsonrpc, method, params }).
JSONRPCRequest(i, method, json) ==
    [kind |-> "Request", id |-> Integer(i), jsonrpc |-> "2.0",
     method |-> method, params |-> params_field(json)]

\* Result payloads and error objects the peer may send.
ResultPayloads == {"tools", "wrong_shape"}
ErrorObjects == {[code |-> -32601, message |-> "method not found"]}

JSONRPCResponse(rid, payload) ==
    [kind |-> "Response", id |-> rid, result |-> payload]
JSONRPCError(rid, e) == [kind |-> "Error", id |-> rid, error |-> e]

\* Lines the peer can put on the child's stdout: replies with an integer id,
\* and lines of every other shape, each mentioning the first id the client
\* allocates.
InboundLines ==
    {JSONRPCResponse(Integer(i), p) : i \in PeerIds, p \in ResultPayloads}
    \cup {JSONRPCError(Integer(i), e) : i \in PeerIds, e \in ErrorObjects}
    \cup {JSONRPCResponse(String(1), "tools")}
    \cup {JSONRPCError(String(1), e) : e \in ErrorObjects}
    \cup {[kind |-> "Notification", id |-> Integer(1)],
          [kind |-> "Request", id |-> Integer(1)],
          [kind |-> "BatchResponse", id |-> Integer(1)],
          [kind |-> "Garbage", id |-> Integer(1)]}

\* serde_json::from_str::<JSONRPCMessage>(&line).
from_str(line) ==
    IF line.kind = "Garbage" THEN [ok |-> FALSE, msg |-> NoMsg]
    ELSE [ok |-> TRUE, msg |-> line]

\* serde_json::from_value::<R::Result>(result).
from_value(payload) ==
    IF payload = "tools" THEN [ok |-> TRUE, typed |-> <<"ListToolsResult", payload>>]
    ELSE [ok |-> FALSE, typed |-> <<>>]

----------------------------------------------------------------------------
VARIABLES
    id_counter,   \* McpClient.id_counter
    pending,      \* McpClient.pending: id -> caller whose oneshot Sender it is
    lock,         \* holder of the pending Mutex
    outgoing,     \* messages buffered in the outgoing mpsc channel
    rx_alive,     \* outgoing_rx not yet dropped
    released,     \* McpClient dropped (outgoing_tx dropped)
    pc,           \* position of each caller inside send_request
    call_id,      \* the id each caller allocated
    request,      \* the message each caller built
    rx,           \* each caller's oneshot receiver
    result,       \* what each send_request call returned
    wpc,          \* position of the writer task
    wmsg,         \* message the writer task is writing
    stdin,        \* what was written to the child's stdin, in order
    flushed,      \* how much of stdin has been flushed
    rpc,          \* position of the reader task
    rline,        \* the last line the reader task read
    lookup,       \* outcome of the reader task's last lookup in pending
    removals,     \* history: how often each id was removed from pending
    completed,    \* history: number of tx.send calls on each caller's waiter
    enqueued      \* history: ids of the requests put into outgoing, in order

vars == <<id_counter, pending, lock, outgoing, rx_alive, released, pc, call_id,
          request, rx, result, wpc, wmsg, stdin, flushed, rpc, rline, lookup,
          removals, completed, enqueued>>

client_vars == <<id_counter, pending, lock, outgoing, rx_alive, released>>
caller_vars == <<pc, call_id, request, rx, result>>
writer_vars == <<wpc, wmsg, stdin, flushed>>
reader_vars == <<rpc, rline, lookup>>
history_vars == <<removals, completed, enqueued>>

Unlocked == [task |-> "none", c |-> 0]
HeldByReader == [task |-> "reader", c |-> 0]
HeldBy(c) == [task |-> "caller", c |-> c]

NoResult == [kind |-> "none", reply |-> NoMsg]
EmptySlot == [st |-> "empty", msg |-> NoMsg]

EmptyMap == [k \in {} |-> 0]

Init ==
    /\ id_counter = 1
    /\ pending = EmptyMap
    /\ lock = Unlocked
    /\ outgoing = <<>>
    /\ rx_alive = TRUE
    /\ released = FALSE
    /\ pc = [c \in Callers |-> "idle"]
    /\ call_id = [c \in Callers |-> 0]
    /\ request = [c \in Callers |-> NoMsg]
    /\ rx = [c \in Callers |-> EmptySlot]
    /\ result = [c \in Callers |-> NoResult]
    /\ wpc = "recv"
    /\ wmsg = NoMsg
    /\ stdin = <<>>
    /\ flushed = 0
    /\ rpc = "read"
    /\ rline = NoMsg
    /\ lookup = "none"
    /\ removals = [i \in PeerIds |-> 0]
    /\ completed = [c \in Callers |-> 0]
    /\ enqueued = <<>>

----------------------------------------------------------------------------
\* HashMap and channel primitives.

\* Mutation: the waiter is registered under the counter's value after the
\* fetch_add instead of under the id the call allocated.
pending_insert_next_key(map, i, c) ==
    [k \in DOMAIN map \cup {i + 1} |-> IF k = i + 1 THEN c ELSE map[k]]

\* HashMap::insert(id, tx): adds or replaces the entry under id.
pending_insert(map, i, c) ==
    [k \in DOMAIN map \cup {i} |-> IF k = i THEN c ELSE map[k]]

\* Mutation: the entry is looked up but left in the map (get for remove).
pending_remove_keeps_entry(map, i) == map

\* HashMap::remove(&id): the map without the entry under id.
pending_remove(map, i) == [k \in DOMAIN map \ {i} |-> map[k]]

\* Mutation: the counter is read without being advanced (load for fetch_add).
fetch_add_no_increment(counter) == [id |-> counter, next |-> counter]

\* AtomicI64::fetch_add(1): the value returned and the counter afterwards.
fetch_add(counter) == [id |-> counter, next |-> counter + 1]

\* Mutation: the channel is unbounded (unbounded_channel for channel).
has_capacity_unbounded(queue) == TRUE

\* Whether mpsc::Sender::send has a free slot to put the message in.
has_capacity(queue) == Len(queue) < CHANNEL_CAPACITY

\* oneshot::Sender::send(msg): fills the slot unless the receiver is gone.
oneshot_send(slot, msg) ==
    IF slot.st = "empty" THEN [st |-> "value", msg |-> msg] ELSE slot

\* Dropping a oneshot::Sender that never sent closes the slot.
oneshot_drop_tx(slot) ==
    IF slot.st = "empty" THEN [st |-> "closed", msg |-> NoMsg] ELSE slot

\* Mutation: a JSON-RPC error reply is reported as a generic failure that
\* does not carry the peer's code and message.
reply_result_generic_fault(slot) ==
    IF slot.st = "closed" THEN [kind |-> "ConnectionClosed", reply |-> NoMsg]
    ELSE CASE slot.msg.kind = "Response" ->
                IF from_value(slot.msg.result).ok
                THEN [kind |-> "Ok", reply |-> slot.msg,
                      typed |-> from_value(slot.msg.result).typed]
                ELSE [kind |-> "DecodeError", reply |-> slot.msg]
           [] OTHER -> [kind |-> "Unexpected", reply |-> slot.msg]

\* The match on the received message at the end of send_request.
reply_result(slot) ==
    IF slot.st = "closed" THEN [kind |-> "ConnectionClosed", reply |-> NoMsg]
    ELSE CASE slot.msg.kind = "Response" ->
                IF from_value(slot.msg.result).ok
                THEN [kind |-> "Ok", reply |-> slot.msg,
                      typed |-> from_value(slot.msg.result).typed]
                ELSE [kind |-> "DecodeError", reply |-> slot.msg]
           [] slot.msg.kind = "Error" ->
                [kind |-> "ProtocolError", reply |-> slot.msg,
                 code |-> slot.msg.error.code,
                 message |-> slot.msg.error.message]
           [] OTHER -> [kind |-> "Unexpected", reply |-> slot.msg]

----------------------------------------------------------------------------
\* send_request, one action per step between suspension points.

\* Mutation: the message is sent before the waiter is registered.
after_step_send_first(step) ==
    CASE step = "allocate" -> "send"
      [] step = "send" -> "lock"
      [] step = "insert" -> "await"

\* The order of the statements of send_request (lines 198-239): the waiter
\* is registered under the lock, then the message is sent, then the reply is
\* awaited.
after_step(step) ==
    CASE step = "allocate" -> "lock"
      [] step = "insert" -> "send"
      [] step = "send" -> "await"

\* Lines 198-220: allocate the id, serialize the params, build the message.
Allocate(c) ==
    /\ pc[c] = "idle"
    /\ ~released
    /\ \E p \in ParamsOf(c), method \in Methods :
         LET fa == fetch_add(id_counter)
             tv == to_value(p)
         IN /\ id_counter' = fa.next
            /\ call_id' = [call_id EXCEPT ![c] = fa.id]
            /\ IF tv.ok
               THEN /\ request' = [request EXCEPT
                                     ![c] = JSONRPCRequest(fa.id, method, tv.json)]
                    /\ pc' = [pc EXCEPT ![c] = after_step("allocate")]
                    /\ result' = result
               ELSE /\ request' = request
                    /\ pc' = [pc EXCEPT ![c] = "done"]
                    /\ result' = [result EXCEPT
                                    ![c] = [kind |-> "SerializeError", reply |-> NoMsg]]
    /\ UNCHANGED <<pending, lock, outgoing, rx_alive, released, rx>>
    /\ UNCHANGED <<writer_vars, reader_vars, history_vars>>

\* Line 225: self.pending.lock().await.
AcquireLock(c) ==
    /\ pc[c] = "lock"
    /\ lock = Unlocked
    /\ lock' = HeldBy(c)
    /\ pc' = [pc EXCEPT ![c] = "insert"]
    /\ UNCHANGED <<id_counter, pending, outgoing, rx_alive, released>>
    /\ UNCHANGED <<call_id, request, rx, result>>
    /\ UNCHANGED <<writer_vars, reader_vars, history_vars>>

\* A guard that lives on to the end of send_request instead of the block.
guard_after_insert_kept(c) == HeldBy(c)

\* Lines 224-227: the guard is a local of the block around the insert and is
\* dropped at the closing brace, before the send.
guard_after_insert(c) == Unlocked

\* Lines 226-227: guard.insert(id, tx), then the guard is dropped.  A sender
\* replaced by the insert is dropped.
Insert(c) ==
    /\ pc[c] = "insert"
    /\ lock = HeldBy(c)
    /\ pending' = pending_insert(pending, call_id[c], c)
    /\ rx' = IF call_id[c] \in DOMAIN pending
             THEN [rx EXCEPT ![pending[call_id[c]]] = oneshot_drop_tx(@)]
             ELSE rx
    /\ lock' = guard_after_insert(c)
    /\ pc' = [pc EXCEPT ![c] = after_step("insert")]
    /\ UNCHANGED <<id_counter, outgoing, rx_alive, released>>
    /\ UNCHANGED <<call_id, request, result>>
    /\ UNCHANGED <<writer_vars, reader_vars, history_vars>>

\* A send whose error is not looked at: the call goes on as if the message
\* had been taken.
send_outcome_ignores_close(alive, queue) ==
    IF has_capacity(queue) THEN "sent" ELSE "suspended"

\* Line 230: what outgoing_tx.send(message).await does: an error when the
\* receiver is gone, the message is taken when there is a free slot, and the
\* call stays suspended otherwise.
send_outcome(alive, queue) ==
    IF ~alive THEN "closed"
    ELSE IF has_capacity(queue) THEN "sent" ELSE "suspended"

\* Lines 230-234: self.outgoing_tx.send(message).await.  The send fails when
\* the receiver is gone (the call returns the error and its oneshot receiver
\* is dropped with it), completes when there is a free slot, and otherwise
\* stays suspended.
Send(c) ==
    /\ pc[c] = "send"
    /\ send_outcome(rx_alive, outgoing) # "suspended"
    /\ IF send_outcome(rx_alive, outgoing) = "closed"
       THEN /\ pc' = [pc EXCEPT ![c] = "done"]
            /\ result' = [result EXCEPT
                            ![c] = [kind |-> "ChannelClosed", reply |-> NoMsg]]
            /\ rx' = [rx EXCEPT ![c] = [st |-> "dropped", msg |-> NoMsg]]
            /\ UNCHANGED <<outgoing, enqueued>>
       ELSE /\ outgoing' = Append(outgoing, request[c])
            /\ enqueued' = Append(enqueued, call_id[c])
            /\ pc' = [pc EXCEPT ![c] = after_step("send")]
            /\ result' = result
            /\ rx' = rx
    /\ UNCHANGED <<id_counter, pending, lock, rx_alive, released>>
    /\ UNCHANGED <<call_id, request>>
    /\ UNCHANGED <<writer_vars, reader_vars, removals, completed>>

\* Lines 237-254: rx.await resolves, and the reply is turned into the result.
\* rx keeps showing the message the call took out of it.
Receive(c) ==
    /\ pc[c] = "await"
    /\ rx[c].st \in {"value", "closed"}
    /\ result' = [result EXCEPT ![c] = reply_result(rx[c])]
    /\ pc' = [pc EXCEPT ![c] = "done"]
    /\ UNCHANGED <<client_vars, call_id, request, rx>>
    /\ UNCHANGED <<writer_vars, reader_vars, history_vars>>

\* The caller drops the send_request future at one of its suspension points
\* (lines 225, 230, 237-238); the oneshot receiver goes with it.
Abandon(c) ==
    /\ pc[c] \in {"lock", "send", "await"}
    /\ pc' = [pc EXCEPT ![c] = "abandoned"]
    /\ rx' = [rx EXCEPT ![c] = [st |-> "dropped", msg |-> NoMsg]]
    /\ UNCHANGED <<client_vars, call_id, request, result>>
    /\ UNCHANGED <<writer_vars, reader_vars, history_vars>>

\* The McpClient is dropped; no send_request borrows it any more.
Release ==
    /\ ~released
    /\ \A c \in Callers : pc[c] \in {"idle", "done", "abandoned"}
    /\ released' = TRUE
    /\ UNCHANGED <<id_counter, pending, lock, outgoing, rx_alive>>
    /\ UNCHANGED <<caller_vars, writer_vars, reader_vars, history_vars>>

----------------------------------------------------------------------------
\* Writer task (lines 121-141).

JsonToken(msg) == [tok |-> "json", msg |-> msg]
NewlineToken == [tok |-> "nl", msg |-> NoMsg]

\* Lines 122-123: outgoing_rx.recv().await yields the oldest message, which is
\* serialized; a message serde_json::to_string rejects is logged and skipped.
WriterRecv ==
    /\ wpc = "recv"
    /\ outgoing # <<>>
    /\ outgoing' = Tail(outgoing)
    /\ \E serialized \in BOOLEAN :
         IF serialized
         THEN wmsg' = Head(outgoing) /\ wpc' = "write_json"
         ELSE wmsg' = NoMsg /\ wpc' = "recv"
    /\ UNCHANGED <<id_counter, pending, lock, rx_alive, released>>
    /\ UNCHANGED <<stdin, flushed>>
    /\ UNCHANGED <<caller_vars, reader_vars, history_vars>>

\* A receiver that reports the end of the channel as soon as the senders are
\* gone, whatever is still buffered.
recv_closed_drops_buffered(queue, senders_dropped) == senders_dropped

\* Line 122: recv() yields None once every sender is dropped and the buffer is
\* empty; buffered messages are still delivered first.
recv_closed(queue, senders_dropped) == queue = <<>> /\ senders_dropped

\* Line 122: recv() yields None once the channel is empty and every sender is
\* dropped; the loop ends and outgoing_rx is dropped with the task.
WriterChannelClosed ==
    /\ wpc = "recv"
    /\ recv_closed(outgoing, released)
    /\ wpc' = "done"
    /\ rx_alive' = FALSE
    /\ UNCHANGED <<id_counter, pending, lock, outgoing, released>>
    /\ UNCHANGED <<wmsg, stdin, flushed>>
    /\ UNCHANGED <<caller_vars, reader_vars, history_vars>>

\* A writer that leaves the flush to a later message.
writer_next_skips_flush(step) ==
    CASE step = "write_json" -> "write_nl"
      [] step = "write_nl" -> "recv"
      [] step = "flush" -> "recv"

\* Lines 125-136: the order of the writer's steps for one message: the json
\* text, the newline, the flush, and then back to recv().
writer_next(step) ==
    CASE step = "write_json" -> "write_nl"
      [] step = "write_nl" -> "flush"
      [] step = "flush" -> "recv"

\* Line 125: stdin.write_all(json.as_bytes()) succeeds.
WriterWriteJson ==
    /\ wpc = "write_json"
    /\ stdin' = Append(stdin, JsonToken(wmsg))
    /\ wpc' = writer_next("write_json")
    /\ UNCHANGED <<client_vars, wmsg, flushed>>
    /\ UNCHANGED <<caller_vars, reader_vars, history_vars>>

\* Line 129: stdin.write_all(b"\n") succeeds.
WriterWriteNewline ==
    /\ wpc = "write_nl"
    /\ stdin' = Append(stdin, NewlineToken)
    /\ wpc' = writer_next("write_nl")
    /\ wmsg' = IF writer_next("write_nl") = "recv" THEN NoMsg ELSE wmsg
    /\ UNCHANGED <<client_vars, flushed>>
    /\ UNCHANGED <<caller_vars, reader_vars, history_vars>>

\* Line 133: stdin.flush() succeeds; the loop goes back to recv().
WriterFlush ==
    /\ wpc = "flush"
    /\ flushed' = Len(stdin)
    /\ wmsg' = NoMsg
    /\ wpc' = writer_next("flush")
    /\ UNCHANGED <<client_vars, stdin>>
    /\ UNCHANGED <<caller_vars, reader_vars, history_vars>>

\* Mutation: the loop ends but the receiving end of the channel is kept alive
\* (held outside the task), so the channel stays open with nobody reading it.
writer_after_failure_keeps_channel ==
    [wpc |-> "done", rx_alive |-> TRUE, outgoing |-> <<>>]

\* What the writer task does once a write or flush has failed: `break` leaves
\* the loop, the task ends and drops outgoing_rx, which closes the channel and
\* drops the messages still buffered in it.
writer_after_failure == [wpc |-> "done", rx_alive |-> FALSE, outgoing |-> <<>>]

\* Lines 125-136: a write_all or flush fails.
WriterBreak ==
    /\ wpc \in {"write_json", "write_nl", "flush"}
    /\ wpc' = writer_after_failure.wpc
    /\ rx_alive' = writer_after_failure.rx_alive
    /\ outgoing' = IF writer_after_failure.rx_alive THEN outgoing
                   ELSE writer_after_failure.outgoing
    /\ wmsg' = NoMsg
    /\ UNCHANGED <<id_counter, pending, lock, released>>
    /\ UNCHANGED <<stdin, flushed>>
    /\ UNCHANGED <<caller_vars, reader_vars, history_vars>>

----------------------------------------------------------------------------
\* Reader task (lines 150-173) with dispatch_response and dispatch_error.

\* An id match that reads a string id as the integer it spells.
integer_key_parses_string(rid) == [ok |-> TRUE, i |-> rid.v]

\* The match on the id in dispatch_response / dispatch_error (lines 270-278,
\* 293-296): only the integer form yields a key.
integer_key(rid) == [ok |-> rid.t = "Integer", i |-> rid.v]

\* A match that correlates a notification carrying an id like a reply.
classify_routes_notifications(line) ==
    IF ~from_str(line).ok THEN "parse_error"
    ELSE CASE from_str(line).msg.kind \in {"Response", "Error", "Notification"} ->
                IF integer_key(from_str(line).msg.id).ok THEN "lookup"
                ELSE "string_id"
           [] OTHER -> "other"

\* A match that hands every message that parses to the lookup, whatever its
\* variant.
classify_routes_any_variant(line) ==
    IF ~from_str(line).ok THEN "parse_error"
    ELSE IF integer_key(from_str(line).msg.id).ok THEN "lookup"
    ELSE "string_id"

\* The arm of the reader's match a line takes (lines 152-171), with the
\* early return of dispatch_response / dispatch_error on a string id.
classify(line) ==
    IF ~from_str(line).ok THEN "parse_error"
    ELSE CASE from_str(line).msg.kind \in {"Response", "Error"} ->
                IF integer_key(from_str(line).msg.id).ok THEN "lookup"
                ELSE "string_id"
           [] from_str(line).msg.kind = "Notification" -> "notification"
           [] OTHER -> "other"

\* Mutation: a reply that matches no pending request ends the reader task.
loop_after_unmatched_stops(outcome) ==
    IF outcome = "unmatched" THEN "done" ELSE "read"

\* Mutation: a line that fails to parse ends the reader task.
loop_after_parse_error_stops(outcome) ==
    IF outcome = "parse_error" THEN "done" ELSE "read"

\* Mutation: a reply whose waiter is gone ends the reader task (the result
\* of tx.send is unwrapped).
loop_after_send_error_stops(outcome) ==
    IF outcome = "send_failed" THEN "done" ELSE "read"

\* Where the reader task goes once a line is handled: no arm of the match
\* leaves the `while let` loop (lines 151-172).
loop_after(outcome) == "read"

\* Lines 151-171: lines.next_line() yields a line, which is parsed and
\* matched; notifications, other variants and parse failures are logged.
ReadLine ==
    /\ rpc = "read"
    /\ \E line \in InboundLines :
         /\ rline' = line
         /\ rpc' = IF classify(line) = "lookup" THEN "lock"
                   ELSE loop_after(classify(line))
    /\ lookup' = "none"
    /\ UNCHANGED <<client_vars, caller_vars, writer_vars, history_vars>>

\* Line 151: next_line() yields Ok(None) or Err; the loop ends.
ReadEnd ==
    /\ rpc = "read"
    /\ rpc' = "done"
    /\ rline' = NoMsg
    /\ lookup' = "none"
    /\ UNCHANGED <<client_vars, caller_vars, writer_vars, history_vars>>

\* Lines 280, 298: pending.lock().await.
ReaderAcquireLock ==
    /\ rpc = "lock"
    /\ lock = Unlocked
    /\ lock' = HeldByReader
    /\ rpc' = "locked"
    /\ UNCHANGED <<id_counter, pending, outgoing, rx_alive, released>>
    /\ UNCHANGED <<rline, lookup>>
    /\ UNCHANGED <<caller_vars, writer_vars, history_vars>>

\* Lines 280-285, 298-300: remove(&id); a sender found is sent the message;
\* the guard is dropped at the end of the statement.
Dispatch ==
    /\ rpc = "locked"
    /\ lock = HeldByReader
    /\ LET i == integer_key(rline.id).i
       IN IF i \in DOMAIN pending
          THEN /\ pending' = pending_remove(pending, i)
               /\ rx' = [rx EXCEPT ![pending[i]] = oneshot_send(@, rline)]
               /\ removals' = [removals EXCEPT ![i] = @ + 1]
               /\ completed' = [completed EXCEPT ![pending[i]] = @ + 1]
               /\ lookup' = "matched"
               /\ rpc' = loop_after(IF rx[pending[i]].st = "dropped"
                                    THEN "send_failed" ELSE "matched")
          ELSE /\ UNCHANGED <<pending, rx, removals, completed>>
               /\ lookup' = "unmatched"
               /\ rpc' = loop_after("unmatched")
    /\ lock' = Unlocked
    /\ UNCHANGED rline
    /\ UNCHANGED <<id_counter, outgoing, rx_alive, released>>
    /\ UNCHANGED <<pc, call_id, request, result>>
    /\ UNCHANGED <<writer_vars, enqueued>>

----------------------------------------------------------------------------
Next ==
    \/ \E c \in Callers : Allocate(c)
    \/ \E c \in Callers : AcquireLock(c)
    \/ \E c \in Callers : Insert(c)
    \/ \E c \in Callers : Send(c)
    \/ \E c \in Callers : Receive(c)
    \/ \E c \in Callers : Abandon(c)
    \/ Release
    \/ WriterRecv
    \/ WriterChannelClosed
    \/ WriterWriteJson
    \/ WriterWriteNewline
    \/ WriterFlush
    \/ WriterBreak
    \/ ReadLine
    \/ ReadEnd
    \/ ReaderAcquireLock
    \/ Dispatch

Spec == Init /\ [][Next]_vars

\* The tokio runtime keeps polling every task that can make progress: a caller
\* past its allocation, the writer task and the reader task each take their
\* next step when it is possible; the pending Mutex hands the lock out in
\* FIFO order, so no task waiting for it is passed over forever.  What the
\* peer, the pipes and the callers decide (lines arriving, end of stream,
\* write failures, new calls, abandoned calls, the drop of the client) is
\* not forced.
Fairness ==
    /\ \A c \in Callers :
          /\ SF_vars(AcquireLock(c))
          /\ WF_vars(Insert(c))
          /\ WF_vars(Send(c))
          /\ WF_vars(Receive(c))
    /\ WF_vars(WriterRecv)
    /\ WF_vars(WriterChannelClosed)
    /\ WF_vars(WriterWriteJson)
    /\ WF_vars(WriterWriteNewline)
    /\ WF_vars(WriterFlush)
    /\ SF_vars(ReaderAcquireLock)
    /\ WF_vars(Dispatch)

FairSpec == Spec /\ Fairness

----------------------------------------------------------------------------
\* Properties.

\* Messages that are buffered in the channel, held by the writer task or
\* already written to the child's stdin.
SentMessages ==
    {outgoing[k] : k \in 1..Len(outgoing)}
    \cup (IF wmsg = NoMsg THEN {} ELSE {wmsg})
    \cup {stdin[k].msg : k \in {j \in 1..Len(stdin) : stdin[j].tok = "json"}}

\* C1: whatever the number of outstanding calls and the order of the replies,
\* the reply a caller's waiter holds, and the reply a finished call resolved
\* with, carries the integer id that this caller allocated.
C1_ReplyMatchesOwnId ==
    \A c \in Callers :
        /\ rx[c].st = "value" => rx[c].msg.id = Integer(call_id[c])
        /\ result[c].reply # NoMsg => result[c].reply.id = Integer(call_id[c])

\* C1 witness: the call with id 2 has resolved with its reply while the call
\* with id 1, issued earlier, is still awaiting its own.
C1_Witness ==
    \E c1, c2 \in Callers :
        /\ call_id[c1] = 1 /\ pc[c1] = "await" /\ rx[c1].st = "empty"
        /\ call_id[c2] = 2 /\ pc[c2] = "done"
        /\ result[c2].kind = "Ok" /\ result[c2].reply.id = Integer(2)

\* C2: every request that is in the outgoing channel, in the writer's hands
\* or on the child's stdin had its waiter registered before: its id is in
\* pending, unless the reader has already removed it to deliver a reply.
C2_RegisteredBeforeSent ==
    \A m \in SentMessages :
        \/ m.id.v \in DOMAIN pending
        \/ (m.id.v \in PeerIds /\ removals[m.id.v] > 0)

\* C2 witness: the peer answered the instant it saw the request: the writer
\* task has written the request's bytes but not yet flushed them, and the
\* reply already found the entry and sits in the waiter of the awaiting caller.
C2_Witness ==
    \E c \in Callers :
        /\ pc[c] = "await" /\ rx[c].st = "value"
        /\ wmsg = request[c] /\ wpc \in {"write_nl", "flush"}
        /\ removals[call_id[c]] = 1

\* A call is awaiting a reply that is still to come: its entry is in pending
\* and its waiter is empty.
StillPending(c) ==
    /\ pc[c] = "await" /\ rx[c].st = "empty"
    /\ call_id[c] \in DOMAIN pending /\ pending[call_id[c]] = c

\* C3: if the reader task ends while a call is awaiting and its entry is
\* still in pending, the call eventually resolves to the connection-closed
\* error (unless its caller gives it up first).
C3_ClosedStreamResolves ==
    \A c \in Callers :
        []((rpc = "read" /\ StillPending(c)) =>
             []((rpc = "done" /\ StillPending(c)) =>
                  <>(\/ pc[c] = "abandoned"
                     \/ (pc[c] = "done" /\ result[c].kind = "ConnectionClosed"))))

\* Ids handed out so far.
AllocatedIds == {call_id[c] : c \in {d \in Callers : call_id[d] # 0}}

\* C4: the ids send_request allocates are 1, 2, 3, ... in allocation order:
\* the ids handed out are exactly 1..id_counter-1, no two calls hold the same
\* id, and each new id is greater than every id handed out before.
C4_IdsStrictlyIncreasing ==
    /\ [](/\ AllocatedIds = 1..(id_counter - 1)
          /\ \A c1, c2 \in Callers :
                (c1 # c2 /\ call_id[c1] # 0) => call_id[c1] # call_id[c2])
    /\ [][\A c \in Callers :
            call_id'[c] # call_id[c] =>
                /\ call_id[c] = 0
                /\ call_id'[c] >= 1
                /\ \A d \in Callers : call_id[d] < call_id'[c]
                /\ (AllocatedIds = {} => call_id'[c] = 1)]_vars

\* C4 witness: two calls are outstanding at once, holding ids 1 and 2.
C4_Witness ==
    \E c1, c2 \in Callers :
        /\ call_id[c1] = 1 /\ call_id[c2] = 2
        /\ pc[c1] = "await" /\ pc[c2] = "await"
        /\ {1, 2} \subseteq DOMAIN pending

\* The reader task has just looked the id of rline up in pending.
ReaderLookedUp == rpc = "locked" /\ rpc' # "locked"

\* C5: an entry leaves pending only when the reader task dispatches a
\* Response or Error carrying its id, and it leaves at most once; no waiter
\* is completed twice, no waiter is registered under two ids, and a further
\* reply with an id already answered finds nothing.
C5_EntryRemovedOnce ==
    /\ [](/\ \A i \in PeerIds : removals[i] <= 1
          /\ \A c \in Callers : completed[c] <= 1
          /\ \A i, j \in DOMAIN pending : pending[i] = pending[j] => i = j)
    /\ [][\A i \in DOMAIN pending :
            (i \notin DOMAIN pending' \/ pending'[i] # pending[i]) =>
                /\ ReaderLookedUp
                /\ rline.kind \in {"Response", "Error"}
                /\ rline.id = Integer(i)
                /\ i \notin DOMAIN pending']_vars
    /\ [][(ReaderLookedUp /\ removals[rline.id.v] > 0) =>
            (lookup' = "unmatched" /\ pending' = pending /\ rx' = rx
                /\ completed' = completed)]_vars

\* C5 witness: a second reply with an id that was already answered has been
\* looked up and found nothing, while its caller holds the first reply.
C5_Witness ==
    \E c \in Callers :
        /\ rpc = "read" /\ lookup = "unmatched"
        /\ rline.id = Integer(call_id[c])
        /\ removals[call_id[c]] = 1 /\ completed[c] = 1
        /\ rx[c].st = "value"

\* C6: a finished call that received an Error reports a protocol error with
\* exactly the peer's code and message, one that received a Response reports
\* the typed result or a decode failure; a reply is delivered to the caller
\* that allocated its id and to nobody else, and neither a delivery nor a
\* call's resolution changes the state of any other call.
C6_FaultReachesItsCaller ==
    /\ [](\A c \in Callers :
            (pc[c] = "done" /\ rx[c].st = "value") =>
                /\ rx[c].msg.id = Integer(call_id[c])
                /\ rx[c].msg.kind = "Error" =>
                     /\ result[c].kind = "ProtocolError"
                     /\ result[c].code = rx[c].msg.error.code
                     /\ result[c].message = rx[c].msg.error.message
                /\ (rx[c].msg.kind = "Response" /\ rx[c].msg.result = "tools") =>
                     /\ result[c].kind = "Ok"
                     /\ result[c].typed = <<"ListToolsResult", "tools">>
                /\ (rx[c].msg.kind = "Response" /\ rx[c].msg.result # "tools") =>
                     result[c].kind = "DecodeError")
    /\ [][\A c \in Callers :
            (rx'[c] # rx[c] /\ rx'[c].st = "value") =>
                /\ ReaderLookedUp
                /\ rline.id = Integer(call_id[c])
                /\ rx'[c].msg = rline
                /\ \A d \in Callers \ {c} :
                     rx'[d] = rx[d] /\ result'[d] = result[d] /\ pc'[d] = pc[d]]_vars
    /\ [][\A c \in Callers :
            result'[c] # result[c] =>
                \A d \in Callers \ {c} :
                     rx'[d] = rx[d] /\ result'[d] = result[d] /\ pc'[d] = pc[d]]_vars

\* C6 witness: one call has resolved to the protocol error -32601 "method not
\* found" while another call is still awaiting with an untouched waiter.
C6_Witness ==
    \E c, d \in Callers :
        /\ pc[c] = "done" /\ result[c].kind = "ProtocolError"
        /\ result[c].code = -32601 /\ result[c].message = "method not found"
        /\ d # c /\ pc[d] = "await" /\ rx[d].st = "empty"
        /\ call_id[d] \in DOMAIN pending

\* C7: a Response or Error whose integer id has no entry in pending changes
\* neither pending nor any waiter or call, and the reader task goes back to
\* reading the next line.
C7_UnmatchedReplyDropped ==
    [][(ReaderLookedUp /\ rline.id.v \notin DOMAIN pending) =>
          /\ pending' = pending
          /\ rx' = rx /\ completed' = completed
          /\ pc' = pc /\ result' = result
          /\ lookup' = "unmatched"
          /\ rpc' = "read"]_vars

\* C7 witness: a reply found no entry while another call's entry is pending;
\* that call is still awaiting and the reader task is reading again.
C7_Witness ==
    /\ rpc = "read" /\ lookup = "unmatched"
    /\ \E c \in Callers :
          /\ pc[c] = "await" /\ rx[c].st = "empty"
          /\ call_id[c] \in DOMAIN pending
          /\ rline.id # Integer(call_id[c])

\* C8: reading a line that fails to parse changes neither pending nor any
\* waiter and leaves the reader task in its loop; from there a Response for any
\* pending id can still be read and routed to the lookup.
C8_MalformedLineSkipped ==
    /\ [][(rpc = "read" /\ rline' # rline /\ rline'.kind = "Garbage") =>
            /\ pending' = pending /\ rx' = rx /\ lock' = lock
            /\ pc' = pc /\ result' = result
            /\ rpc' = "read"]_vars
    /\ [](rline.kind = "Garbage" =>
            /\ rpc = "read"
            /\ \A i \in DOMAIN pending \cap PeerIds :
                 ENABLED (/\ ReadLine
                          /\ rline' = JSONRPCResponse(Integer(i), "tools")
                          /\ rpc' = "lock"))

\* C8 witness: the last line read was malformed, the reader task is reading
\* again and a call is awaiting with its entry still in pending.
C8_Witness ==
    /\ rline.kind = "Garbage" /\ rpc = "read"
    /\ \E c \in Callers :
          /\ pc[c] = "await" /\ rx[c].st = "empty"
          /\ call_id[c] \in DOMAIN pending

\* C9: the outgoing channel never holds more than CHANNEL_CAPACITY messages;
\* while it is full and open a sender cannot complete its send (it stays
\* suspended); a call moves on to await its waiter only by putting its own
\* message into a channel that had a free slot, and a send fails only when the
\* channel is closed, never because it is full.
C9_BoundedQueueBackpressure ==
    /\ [](/\ Len(outgoing) <= CHANNEL_CAPACITY
          /\ \A c \in Callers :
                (pc[c] = "send" /\ rx_alive /\ Len(outgoing) = CHANNEL_CAPACITY)
                    => ~ENABLED Send(c))
    /\ [][\A c \in Callers :
            /\ (pc[c] = "send" /\ pc'[c] = "await") =>
                 /\ Len(outgoing) < CHANNEL_CAPACITY
                 /\ outgoing' = Append(outgoing, request[c])
            /\ (pc[c] = "send" /\ pc'[c] = "done") => ~rx_alive]_vars

\* C9 witness: the channel is full and open, and a registered caller is
\* suspended in its send.
C9_Witness ==
    /\ Len(outgoing) = CHANNEL_CAPACITY /\ rx_alive
    /\ \E c \in Callers :
          /\ pc[c] = "send" /\ call_id[c] \in DOMAIN pending
          /\ ~ENABLED Send(c)

\* C10 as stated: once the writer task has terminated, a send_request that
\* reaches its send still puts its message into the outgoing channel.
C10_EnqueuesAccumulate ==
    [][\A c \in Callers :
         (wpc = "done" /\ pc[c] = "send" /\ pc'[c] \notin {"send", "abandoned"})
            => (pc'[c] = "await" /\ outgoing' = Append(outgoing, request[c]))]_vars

\* C10 amended: once the writer task has terminated it stays terminated and
\* nothing more is written or flushed; the channel is closed with it, so no
\* later message is enqueued: a send_request that reaches its send returns
\* the channel-closed error.
C10_WriteDeadClosesChannel ==
    /\ [](wpc = "done" => ~rx_alive)
    /\ [][wpc = "done" =>
            /\ wpc' = "done"
            /\ stdin' = stdin /\ flushed' = flushed
            /\ outgoing' = outgoing]_vars
    /\ [][\A c \in Callers :
            (wpc = "done" /\ pc[c] = "send" /\ pc'[c] \notin {"send", "abandoned"})
                => (pc'[c] = "done" /\ result'[c].kind = "ChannelClosed")]_vars

\* C10 witness: a write failed after a message had been written, the writer
\* task is gone, and a later call has returned the channel-closed error.
C10_Witness ==
    /\ wpc = "done" /\ ~released /\ stdin # <<>>
    /\ \E c \in Callers : pc[c] = "done" /\ result[c].kind = "ChannelClosed"

----------------------------------------------------------------------------
\* Teardown.  The Command is built with kill_on_drop(true) (line 104), so the
\* child is killed when the McpClient goes; its end of the stdout pipe closes
\* and, after the lines already in the pipe, next_line() yields Ok(None).
\* Both tasks are spawned on the runtime (lines 121, 149) and keep being
\* polled; once the client is gone no caller competes for the pending lock.
TeardownFairness ==
    /\ WF_vars(WriterRecv \/ WriterChannelClosed \/ WriterWriteJson
                   \/ WriterWriteNewline \/ WriterFlush)
    /\ WF_vars(ReaderAcquireLock \/ Dispatch)
    /\ SF_vars(released /\ ReadEnd)

TeardownSpec == Spec /\ TeardownFairness

BothLoopsDone == wpc = "done" /\ rpc = "done"

\* The writer leaves its loop with nothing unwritten: no message in the queue
\* and none taken from it and still on its way to stdin.
WriterExitsDrained ==
    (released /\ wpc # "done" /\ wpc' = "done")
        => (outgoing = <<>> /\ wmsg = NoMsg)

\* C11 as stated: after the release both loops terminate, and the writer
\* terminates only after writing every message still in the queue.
C11_DrainsThenTerminates ==
    /\ released ~> BothLoopsDone
    /\ [][WriterExitsDrained]_vars

\* C11: after the release both loops terminate.  The writer ends either
\* because recv() reports the closed channel, and then the queue is empty and
\* no message is half written, or because a write or flush failed; the reader
\* ends when the stream ends.
C11_LoopsTerminateAfterRelease ==
    /\ released ~> BothLoopsDone
    /\ [][(released /\ wpc = "recv" /\ wpc' = "done")
            => (outgoing = <<>> /\ wmsg = NoMsg /\ ~rx_alive')]_vars
    /\ [][(released /\ wpc # "done" /\ wpc' = "done")
            => (wpc = "recv" \/ wpc \in {"write_json", "write_nl", "flush"})]_vars
    /\ [][(rpc # "done" /\ rpc' = "done") => rpc = "read"]_vars

\* The client is released with a message left in the queue, the writer has
\* written it and both loops have ended.
C11_Witness ==
    /\ released
    /\ BothLoopsDone
    /\ Len(stdin) = 2
    /\ flushed = 2
    /\ \E c \in Callers : pc[c] = "abandoned"

----------------------------------------------------------------------------
\* C12: the pending lock is held only across one insert or one remove.  A
\* caller holds it only between acquiring it and its insert, the reader only
\* between acquiring it and its remove; the holder's next step needs nothing
\* but the lock it has, and nobody suspended on the queue, on a stream or on a
\* waiter holds it.
C12_LockHeldOnlyForMapAccess ==
    /\ \A c \in Callers :
          /\ lock = HeldBy(c) => (pc[c] = "insert" /\ ENABLED Insert(c))
          /\ pc[c] \in {"send", "await"} => lock # HeldBy(c)
    /\ lock = HeldByReader => (rpc = "locked" /\ ENABLED Dispatch)
    /\ rpc = "read" => lock # HeldByReader

\* The reader holds the lock for its remove while one caller waits for the
\* lock, another is suspended on the full queue and the writer is writing.
C12_Witness ==
    /\ lock = HeldByReader
    /\ rpc = "locked"
    /\ \E c \in Callers : pc[c] = "lock"
    /\ \E c \in Callers : pc[c] \in {"send", "await"}
    /\ wpc \in {"write_json", "write_nl", "flush"}

----------------------------------------------------------------------------
\* Progress.  Each send_request future is polled by its caller, the two tasks
\* by the runtime; tokio's Mutex hands the lock to waiters in turn.
ProgressFairness ==
    /\ \A c \in Callers : WF_vars(Insert(c) \/ Send(c) \/ Receive(c))
    /\ WF_vars(WriterRecv \/ WriterChannelClosed \/ WriterWriteJson
                   \/ WriterWriteNewline \/ WriterFlush)
    /\ SF_vars(ReaderAcquireLock \/ Dispatch)

ProgressSpec == Spec /\ ProgressFairness

\* The reader has read the reply to c's registered call and is about to look
\* it up.
ReplyRead(c) ==
    /\ rpc = "lock"
    /\ rline.id = Integer(call_id[c])
    /\ pc[c] \in {"send", "await"}
    /\ call_id[c] \in DOMAIN pending /\ pending[call_id[c]] = c

\* The call has returned to its caller, or its caller gave it up.
Resolved(c) == pc[c] \in {"done", "abandoned"}

\* A step of a caller, the writer or the reader that waits for nothing outside
\* the client.
TaskStep ==
    \/ \E c \in Callers : AcquireLock(c) \/ Insert(c) \/ Send(c) \/ Receive(c)
    \/ WriterRecv \/ WriterWriteJson \/ WriterWriteNewline \/ WriterFlush
    \/ ReaderAcquireLock \/ Dispatch

\* Whoever waits for the lock or for room in the queue is not stuck: some
\* task can step.  A call is held up by another only at the lock, which its
\* holder can release at once, or at the full queue.
NoDeadlock ==
    /\ ((\E c \in Callers : pc[c] \in {"lock", "insert", "send"})
           \/ rpc \in {"lock", "locked"}) => ENABLED TaskStep
    /\ \A c \in Callers :
          /\ (pc[c] = "lock" /\ lock = Unlocked) => ENABLED AcquireLock(c)
          /\ (pc[c] = "send" /\ rx_alive /\ Len(outgoing) < CHANNEL_CAPACITY)
                => ENABLED Send(c)
          /\ (pc[c] = "await" /\ rx[c].st = "value") => ENABLED Receive(c)

\* The reply to c's call has been read and c has not got it yet: the reader
\* is about to look it up, or is looking it up, or has put it in c's waiter.
ReplyOwed(c) ==
    /\ ~Resolved(c)
    /\ \/ ReplyRead(c)
       \/ /\ rpc = "locked"
          /\ rline.id = Integer(call_id[c])
          /\ call_id[c] \in DOMAIN pending /\ pending[call_id[c]] = c
       \/ rx[c].st = "value"

\* C13: calls hold each other up only at the full queue.  A call whose reply
\* the reader has read resolves, whatever the other calls are doing: the
\* reply stays owed until the call resolves, and it is not owed for ever.  The
\* callers and the two loops never deadlock.
C13_CallsDoNotBlockEachOther ==
    /\ [][\A c \in Callers :
             ReplyOwed(c) => (ReplyOwed(c)' \/ Resolved(c)')]_vars
    /\ \A c \in Callers : []<>(~ReplyOwed(c))
    /\ []NoDeadlock

\* A call has returned its reply while another call is still suspended on the
\* full queue.
C13_Witness ==
    \E c, d \in Callers :
        /\ pc[c] = "done" /\ result[c].kind = "Ok"
        /\ pc[d] = "send" /\ Len(outgoing) = CHANNEL_CAPACITY
        /\ wpc # "done" /\ rpc # "done"

----------------------------------------------------------------------------
\* A step of the reader task.
ReaderStep == reader_vars' # reader_vars

\* A Response or Error whose id has the string wire form.
IsStringIdReply(m) == m.kind \in {"Response", "Error"} /\ m.id.t = "String"

\* C14: a Response or Error with a string id completes no waiter and leaves
\* pending as it is, also when the string spells a pending integer id: the
\* reader's step that reads it changes neither, the reader goes on reading,
\* and no such line ever reaches the lookup.
C14_StringIdNeverMatches ==
    /\ [][(ReaderStep /\ rpc = "read" /\ IsStringIdReply(rline'))
            => /\ pending' = pending
               /\ rx' = rx
               /\ removals' = removals
               /\ completed' = completed
               /\ rpc' = "read"]_vars
    /\ [](rpc \in {"lock", "locked"} => ~IsStringIdReply(rline))

\* The reader has read a Response with the string id "1" while the call with
\* the integer id 1 is awaiting its reply, and the call is still awaiting.
C14_Witness ==
    /\ rpc = "read"
    /\ rline = JSONRPCResponse(String(1), "tools")
    /\ \E c \in Callers : StillPending(c) /\ call_id[c] = 1

----------------------------------------------------------------------------
\* C15: the request send_request builds has no params field exactly when the
\* params value serializes to JSON null, and otherwise carries the serialized
\* value itself; it always carries the id the call allocated, in integer
\* form, and the method name of the request type.
C15_EnvelopeParams ==
    \A c \in Callers :
        request[c] # NoMsg =>
            /\ request[c].kind = "Request"
            /\ request[c].jsonrpc = "2.0"
            /\ request[c].id = Integer(call_id[c])
            /\ call_id[c] \in 1..(id_counter - 1)
            /\ request[c].method \in Methods
            /\ \E p \in ParamsOf(c) :
                  /\ to_value(p).ok
                  /\ request[c].params.present = (to_value(p).json # "null")
                  /\ request[c].params.present
                        => request[c].params.json = to_value(p).json
            /\ (c = 1) = ~request[c].params.present

\* One request was built from params that serialize to null and one from
\* params with a value, and a request has been written out.
C15_Witness ==
    /\ \E c \in Callers : request[c] # NoMsg /\ ~request[c].params.present
    /\ \E c \in Callers :
          /\ request[c] # NoMsg
          /\ request[c].params = [present |-> TRUE, json |-> "{cursor}"]
    /\ Len(stdin) >= 2

----------------------------------------------------------------------------
RECURSIVE IsSubsequence(_, _)
\* a is b with some elements left out.
IsSubsequence(a, b) ==
    IF a = <<>> THEN TRUE
    ELSE IF b = <<>> THEN FALSE
    ELSE IF Head(a) = Head(b) THEN IsSubsequence(Tail(a), Tail(b))
    ELSE IsSubsequence(a, Tail(b))

\* The ids of the requests in a sequence of messages.
IdsOf(msgs) == [k \in 1..Len(msgs) |-> msgs[k].id.v]

\* The ids of the requests whose json text was written to stdin, in order.
WrittenIds ==
    LET texts == SelectSeq(stdin, LAMBDA t : t.tok = "json")
    IN [k \in 1..Len(texts) |-> texts[k].msg.id.v]

\* The message the writer has taken and not written yet.
HeldIds == IF wpc = "write_json" THEN <<wmsg.id.v>> ELSE <<>>

\* The ids of the requests the writer has taken from the channel so far.
TakenIds == SubSeq(enqueued, 1, Len(enqueued) - Len(outgoing))

\* stdin is json text, newline, json text, newline, ...; everything up to the
\* last complete message is flushed, and the writer is at most one message,
\* the one it holds, past the flushed part.
OneMessageAtATime ==
    /\ \A k \in DOMAIN stdin :
          stdin[k].tok = IF k % 2 = 1 THEN "json" ELSE "nl"
    /\ flushed % 2 = 0
    /\ flushed <= Len(stdin)
    /\ wpc = "recv" => (Len(stdin) = flushed /\ wmsg = NoMsg)
    /\ wpc = "write_json" => (Len(stdin) = flushed /\ wmsg # NoMsg)
    /\ wpc = "write_nl"
          => (Len(stdin) = flushed + 1 /\ stdin[Len(stdin)] = JsonToken(wmsg))
    /\ wpc = "flush" => Len(stdin) = flushed + 2
    /\ wpc = "done" => Len(stdin) <= flushed + 2

----------------------------------------------------------------------------
\* The variants the reader only logs: a notification, a request of the peer
\* and a batch.
LoggedOnlyKinds == {"Notification", "Request", "BatchResponse"}

\* C17: a notification, a request of the peer or a batch leaves pending and
\* every waiter as they are, also when it mentions a pending id; the reader
\* goes on to the next line, and never takes such a message to the lookup.
C17_OtherVariantsChangeNothing ==
    /\ [][(ReaderStep /\ rpc = "read" /\ rline'.kind \in LoggedOnlyKinds)
            => /\ pending' = pending
               /\ rx' = rx
               /\ lock' = lock
               /\ removals' = removals
               /\ completed' = completed
               /\ rpc' = "read"]_vars
    /\ [](rpc \in {"lock", "locked"} => rline.kind \notin LoggedOnlyKinds)

\* The reader has read a notification that mentions id 1 while the call with
\* id 1 is awaiting its reply, and is back at reading.
C17_Witness ==
    /\ rpc = "read"
    /\ rline = [kind |-> "Notification", id |-> Integer(1)]
    /\ \E c \in Callers : StillPending(c) /\ call_id[c] = 1

----------------------------------------------------------------------------
\* The caller of c has given the call up and c's entry is still in pending.
AbandonedEntry(c) ==
    /\ pc[c] = "abandoned"
    /\ call_id[c] \in DOMAIN pending /\ pending[call_id[c]] = c

\* C18: giving up a registered call leaves its entry in pending.  The entry
\* goes only when the reader looks up a reply with its id: the entry is
\* removed, the reply is lost with the dropped waiter, every other entry and
\* every waiter stay as they are and the reader goes on reading.  Without such
\* a reply the entry stays.
C18_AbandonedEntryStays ==
    /\ [][\A c \in Callers :
             (pc[c] # "abandoned" /\ pc'[c] = "abandoned")
                 => /\ pending' = pending
                    /\ pc[c] \in {"send", "await"} /\ call_id[c] \in DOMAIN pending
                          => AbandonedEntry(c)']_vars
    /\ [][\A c \in Callers :
             (AbandonedEntry(c) /\ ~AbandonedEntry(c)')
                 => /\ ReaderLookedUp
                    /\ rline.kind \in {"Response", "Error"}
                    /\ rline.id = Integer(call_id[c])
                    /\ pending' = pending_remove(pending, call_id[c])
                    /\ \A k \in DOMAIN pending \ {call_id[c]} :
                          k \in DOMAIN pending' /\ pending'[k] = pending[k]
                    /\ rx' = rx
                    /\ rx[c].st = "dropped"
                    /\ rpc' = "read"]_vars

\* A call was given up, a reply with its id came and took its entry out of
\* pending, and the reader is reading on while another call awaits its reply.
C18_Witness ==
    \E c, d \in Callers :
        /\ pc[c] = "abandoned"
        /\ call_id[c] # 0 /\ call_id[c] \notin DOMAIN pending
        /\ removals[call_id[c]] = 1
        /\ rx[c].st = "dropped"
        /\ rline.kind \in {"Response", "Error"}
        /\ rline.id = Integer(call_id[c])
        /\ lookup = "matched"
        /\ rpc = "read"
        /\ StillPending(d)

----------------------------------------------------------------------------
\* c's call has returned the channel-closed error.
ReturnedChannelClosed(c) == pc[c] = "done" /\ result[c].kind = "ChannelClosed"

\* The entry of a call that returned the channel-closed error is in pending.
LeftoverEntry(c) ==
    /\ ReturnedChannelClosed(c)
    /\ call_id[c] \in DOMAIN pending /\ pending[call_id[c]] = c

\* C19: a send into the channel the ended writer has closed makes the call
\* return the channel-closed error in that very step: the message is not
\* enqueued, the call never awaits its waiter, and pending is left as it is.
\* The entry then goes only when the reader looks up a reply with its id.
C19_ChannelClosedLeavesEntry ==
    /\ [][\A c \in Callers :
             (pc[c] = "send" /\ ~rx_alive /\ pc'[c] \notin {"send", "abandoned"})
                 => /\ ReturnedChannelClosed(c)'
                    /\ pending' = pending
                    /\ outgoing' = outgoing
                    /\ enqueued' = enqueued
                    /\ call_id[c] \in DOMAIN pending => LeftoverEntry(c)']_vars
    /\ [](\A c \in Callers :
             ReturnedChannelClosed(c)
                 => /\ wpc = "done" /\ ~rx_alive
                    /\ \A k \in DOMAIN enqueued : enqueued[k] # call_id[c])
    /\ [][\A c \in Callers :
             (LeftoverEntry(c) /\ ~LeftoverEntry(c)')
                 => /\ ReaderLookedUp
                    /\ rline.id = Integer(call_id[c])
                    /\ ReturnedChannelClosed(c)']_vars

\* The writer has ended on a failed write, a later call got the
\* channel-closed error and its entry is still in pending while the reader
\* is reading on.
C19_Witness ==
    \E c \in Callers :
        /\ LeftoverEntry(c)
        /\ wpc = "done"
        /\ ~released
        /\ Len(stdin) > flushed
        /\ rpc = "read" /\ rline # NoMsg

----------------------------------------------------------------------------
\* The variants that answer a request.
ReplyKinds == {"Response", "Error"}

\* C20: the waiter registered under key k is completed only by the reader's
\* lookup of a Response or Error whose id is the integer k, and with that
\* message; so no call finds another variant in its waiter, and the
\* "unexpected message variant" result never occurs.
C20_OnlyRepliesCompleteWaiters ==
    /\ [][\A c \in Callers :
             (rx[c].st # "value" /\ rx'[c].st = "value")
                 => /\ ReaderLookedUp
                    /\ rline.kind \in ReplyKinds
                    /\ rline.id.t = "Integer"
                    /\ rline.id.v = call_id[c]
                    /\ rline.id.v \in DOMAIN pending
                    /\ pending[rline.id.v] = c
                    /\ rx'[c].msg = rline]_vars
    /\ [](\A c \in Callers :
             /\ rx[c].st = "value" => rx[c].msg.kind \in ReplyKinds
             /\ result[c].kind # "Unexpected"
             /\ result[c].kind \in {"Ok", "DecodeError"}
                   => result[c].reply.kind = "Response"
             /\ result[c].kind = "ProtocolError" => result[c].reply.kind = "Error")

\* One call has returned a result and another the peer's error, and the last
\* line the reader read was a message that answers no request.
C20_Witness ==
    /\ \E c \in Callers : pc[c] = "done" /\ result[c].kind = "Ok"
    /\ \E c \in Callers : pc[c] = "done" /\ result[c].kind = "ProtocolError"
    /\ rline.kind \in LoggedOnlyKinds

============================================================================
